---- MODULE Spec2Model ----
(***************************************************************************)
(* Model of the HW6 widget consumer (src/consumer.py): the polling loop of *)
(* main(), the S3 request source, the two sinks and the pure transform     *)
(* helpers.  Strings the code works on character by character are          *)
(* sequences of one-character strings; attribute names, which the code     *)
(* only compares, are plain strings.                                       *)
(***************************************************************************)
EXTENDS Integers, Sequences, FiniteSets, TLC

VARIABLES
    dest,            \* args.dest: "s3" or "dynamo"
    max_iterations,  \* args.max_iterations
    pending,         \* Bucket 2: key -> text
    blob,            \* Bucket 3: key -> body
    table,           \* the DynamoDB table: sequence of the items put
    pc,              \* position of main()
    key,             \* local key of main()
    text,            \* local text of main()
    data,            \* local data of main()
    iterations,      \* local iterations of main()
    sleeps,          \* history: number of time.sleep calls
    storeCalls,      \* history: key -> number of put_object/put_item calls
    delivered,       \* history: key -> number of times the source returned it
    branch,          \* history: how the last finished iteration ended
    deleted,         \* history: whether the delete of the current iteration succeeded
    stoppedAt,       \* history: pc at which the loop was left abnormally
    failures,        \* history: number of backend failures injected so far
    bucket0,         \* history: Bucket 2 as it was at start
    arg,             \* argument of a transform helper called on its own
    ret              \* what that call returned

vars == <<dest, max_iterations, pending, blob, table, pc, key, text, data,
          iterations, sleeps, storeCalls, delivered, branch, deleted,
          stoppedAt, failures, bucket0, arg, ret>>

----------------------------------------------------------------------------
(* Bounds of the model *)

MaxPending == 2      \* envelopes in Bucket 2 at start
MaxN == 3            \* largest --max-iterations tried
IterCap == 4         \* iterations explored when the loop is unbounded
MaxFailures == 1     \* backend failures injected per run
MaxOthers == 2       \* entries of otherAttributes given to flatten_widget
MaxOwnerLen == 3     \* length of the owners given to normalize_owner

----------------------------------------------------------------------------
(* Characters and strings *)

\* The characters of the model in code point order.  "U+0130" stands for the
\* one character LATIN CAPITAL LETTER I WITH DOT ABOVE and "U+0307" for
\* COMBINING DOT ABOVE, "U+2102" for DOUBLE-STRUCK CAPITAL C, an uppercase
\* letter that str.lower() leaves as it is.
Ascii == << " ", "-", "/", "0", "1", "2", "A", "B", "C", "D", "E", "L", "N",
            "R", "T", "a", "b", "c", "d", "e", "g", "i", "l", "n", "o", "p", "r",
            "s", "t", "u", "w", "x", "U+0130", "U+0307",
            "U+2102" >>

Ord(c) == CHOOSE i \in 1..Len(Ascii) : Ascii[i] = c

\* str.lower() on one character
LowerChar(c) ==
    CASE c = "A" -> "a" [] c = "B" -> "b" [] c = "C" -> "c" [] c = "D" -> "d"
      [] c = "E" -> "e" [] c = "L" -> "l" [] c = "N" -> "n" [] c = "R" -> "r"
      [] c = "T" -> "t" [] OTHER -> c

\* the lowercase form of one character as str.lower() gives it: U+0130
\* becomes the two characters "i", U+0307
LowerOf(c) == IF c = "U+0130" THEN << "i", "U+0307" >> ELSE << LowerChar(c) >>

RECURSIVE lower(_)
lower(s) == IF s = <<>> THEN <<>> ELSE LowerOf(Head(s)) \o lower(Tail(s))

\* faulty variant of replace_space: only the first space is replaced, as
\* str.replace(" ", "-", 1) does
replace_first_space(s) ==
    [i \in 1..Len(s) |->
        IF s[i] = " " /\ (\A j \in 1..(i - 1) : s[j] # " ") THEN "-" ELSE s[i]]

\* str.replace(" ", "-")
replace_space(s) == [i \in 1..Len(s) |-> IF s[i] = " " THEN "-" ELSE s[i]]

\* lexicographic order of S3 keys
RECURSIVE LexLeq(_, _)
LexLeq(a, b) ==
    IF a = <<>> THEN TRUE
    ELSE IF b = <<>> THEN FALSE
    ELSE IF Head(a) = Head(b) THEN LexLeq(Tail(a), Tail(b))
    ELSE Ord(Head(a)) < Ord(Head(b))

----------------------------------------------------------------------------
(* JSON values *)

Str(s) == [t |-> "str", v |-> s]
Null == [t |-> "null", v |-> <<>>]       \* JSON null / Python None
Absent == [t |-> "absent", v |-> <<>>]   \* the key is not in the dict

\* a request document (a JSON object) with the fields the code reads
Req(ty, wid, own, lab, des, oas) ==
    [type |-> ty, widgetId |-> wid, owner |-> own, label |-> lab,
     description |-> des, otherAttributes |-> oas]

NoObj == Req(Absent, Absent, Absent, Absent, Absent, <<>>)

\* a JSON text: garbage (not JSON), a JSON value that is no object, or an object
Garbage == [fmt |-> "garbage", obj |-> NoObj]
Scalar == [fmt |-> "scalar", obj |-> NoObj]
Object(o) == [fmt |-> "object", obj |-> o]

\* json.loads: [ok |-> FALSE] stands for json.JSONDecodeError
json_loads(txt) ==
    IF txt.fmt = "garbage" THEN [ok |-> FALSE, isdict |-> FALSE, obj |-> NoObj]
    ELSE [ok |-> TRUE, isdict |-> txt.fmt = "object", obj |-> txt.obj]

\* json.dumps(widget, separators=(",", ":")): an object text with the dict's
\* entries in insertion order
json_dumps(widget) == Object(widget)

----------------------------------------------------------------------------
(* Transform helpers: dicts are sequences of <<name, value>> in insertion order *)

Has(d, k) == \E i \in 1..Len(d) : d[i][1] = k

Get(d, k) == d[CHOOSE i \in 1..Len(d) : d[i][1] = k][2]

\* faulty variant of Put: an existing key keeps its value
PutIfAbsent(d, k, v) == IF Has(d, k) THEN d ELSE Append(d, <<k, v>>)

\* d[k] = v: an existing key keeps its place and takes the new value
Put(d, k, v) ==
    IF Has(d, k)
    THEN [i \in 1..Len(d) |-> IF d[i][1] = k THEN <<k, v>> ELSE d[i]]
    ELSE Append(d, <<k, v>>)

normalize_owner(owner) == lower(replace_space(owner))

WidgetsPrefix == << "w", "i", "d", "g", "e", "t", "s", "/" >>

\* faulty variant of s3_key_for_widget: the owner is used as it is written
s3_key_raw_owner(owner, widget_id) ==
    WidgetsPrefix \o owner \o << "/" >> \o widget_id

s3_key_for_widget(owner, widget_id) ==
    WidgetsPrefix \o normalize_owner(owner) \o << "/" >> \o widget_id

\* the loop of flatten_widget over otherAttributes
RECURSIVE PutOthers(_, _)
PutOthers(out, oas) ==
    IF oas = <<>> THEN out
    ELSE PutOthers(Put(out, Head(oas).name, Head(oas).value), Tail(oas))

\* faulty variant of NonEmpty: only None is left out
NotNone(v) == v # Absent /\ v # Null

\* req.get(f) is not None and req.get(f) != ""
NonEmpty(v) == v # Absent /\ v # Null /\ v # Str(<<>>)

\* faulty variant of flatten_widget: a missing widgetId or owner is read
\* with req.get(..., "") and does not raise
flatten_widget_lenient(req) ==
    LET wid == IF req.widgetId = Absent THEN Str(<<>>) ELSE req.widgetId
        own == IF req.owner = Absent THEN Str(<<>>) ELSE req.owner
        o0 == << <<"widget_id", wid>>, <<"owner", own>> >>
        o1 == IF NonEmpty(req.label) THEN Put(o0, "label", req.label) ELSE o0
        o2 == IF NonEmpty(req.description)
              THEN Put(o1, "description", req.description) ELSE o1
    IN  [ok |-> TRUE, out |-> PutOthers(o2, req.otherAttributes)]

\* flatten_widget: [ok |-> FALSE] stands for the KeyError of req["widgetId"]
\* or req["owner"]
flatten_widget(req) ==
    IF req.widgetId = Absent \/ req.owner = Absent
    THEN [ok |-> FALSE, out |-> <<>>]
    ELSE LET o0 == << <<"widget_id", req.widgetId>>, <<"owner", req.owner>> >>
             o1 == IF NonEmpty(req.label)
                   THEN Put(o0, "label", req.label) ELSE o0
             o2 == IF NonEmpty(req.description)
                   THEN Put(o1, "description", req.description) ELSE o1
         IN  [ok |-> TRUE, out |-> PutOthers(o2, req.otherAttributes)]

----------------------------------------------------------------------------
(* Sinks *)

\* faulty variant of put_object: an object already stored under the key is
\* kept
put_object_if_absent(b, k, body) ==
    [x \in DOMAIN b \cup {k} |-> IF x \in DOMAIN b THEN b[x] ELSE body]

\* s3.put_object(Bucket=bucket3, Key=k, Body=body): overwrites the key
put_object(b, k, body) ==
    [x \in DOMAIN b \cup {k} |-> IF x = k THEN body ELSE b[x]]

\* store_widget_to_s3 when put_object succeeds
store_widget_to_s3(b, widget) ==
    put_object(b,
               s3_key_for_widget(Get(widget, "owner").v, Get(widget, "widget_id").v),
               json_dumps(widget))

\* faulty variant of DynamoItem: the last entry of the widget is left out
DynamoItemShort(widget) ==
    [i \in 1..(Len(widget) - 1) |-> <<widget[i][1], [S |-> widget[i][2]]>>]

\* item = {k: {"S": v} for k, v in widget.items()}
DynamoItem(widget) == [i \in 1..Len(widget) |-> <<widget[i][1], [S |-> widget[i][2]]>>]

\* store_widget_to_dynamo when put_item succeeds
store_widget_to_dynamo(tb, widget) == Append(tb, DynamoItem(widget))

\* str(data.get("type", "")).lower()
TypeOf(obj) ==
    IF obj.type = Absent THEN <<>>
    ELSE IF obj.type = Null THEN << "n", "o", "n", "e" >>
    ELSE lower(obj.type.v)

Create == << "c", "r", "e", "a", "t", "e" >>
Update == << "u", "p", "d", "a", "t", "e" >>
Delete == << "d", "e", "l", "e", "t", "e" >>

\* faulty variant of IsCreate: update requests take the create path too
IsCreateOrUpdate(t) == t \in {Create, Update}

\* line 108: t == "create"
IsCreate(t) == t = Create

\* faulty variant of UseBlobSink: the test of line 110 is inverted
UseBlobSinkInverted(dst) == dst # "s3"

\* line 110: dest == "s3"
UseBlobSink(dst) == dst = "s3"

\* whether process_request reaches a sink call for this data
ReachesSink(d) == d.isdict /\ IsCreate(TypeOf(d.obj)) /\ flatten_widget(d.obj).ok

\* process_request as main() sees it: the outcome, the sinks afterwards and
\* the number of sink calls made.  sinkOk says whether the put_object or
\* put_item call succeeds.  bucket3 and table are checked at startup
\* (lines 149-152), so the ValueError branches cannot be taken in the loop.
process_request(d, dst, b, tb, sinkOk) ==
    IF ~d.isdict
    THEN [outcome |-> "bad_data", blob |-> b, table |-> tb, calls |-> 0]
    ELSE IF IsCreate(TypeOf(d.obj))
    THEN \* line 109: f is the one value of flatten_widget(data)
         CHOOSE r \in
           { IF ~f.ok
             THEN [outcome |-> "missing_field", blob |-> b, table |-> tb, calls |-> 0]
             ELSE IF ~sinkOk
             THEN [outcome |-> "store_failed", blob |-> b, table |-> tb, calls |-> 1]
             ELSE IF UseBlobSink(dst)
             THEN [outcome |-> "stored", blob |-> store_widget_to_s3(b, f.out),
                   table |-> tb, calls |-> 1]
             ELSE [outcome |-> "stored", blob |-> b,
                   table |-> store_widget_to_dynamo(tb, f.out), calls |-> 1]
             : f \in {flatten_widget(d.obj)} } : TRUE
    ELSE IF TypeOf(d.obj) \in {Update, Delete}
    THEN [outcome |-> "skipped", blob |-> b, table |-> tb, calls |-> 0]
    ELSE [outcome |-> "unknown", blob |-> b, table |-> tb, calls |-> 0]

----------------------------------------------------------------------------
(* Request source *)

\* faulty variant of FirstKey: shorter keys come first, as when the keys are
\* taken for numbers
FirstKeyShortest(p) ==
    CHOOSE k \in DOMAIN p :
        \A j \in DOMAIN p :
            Len(k) < Len(j) \/ (Len(k) = Len(j) /\ LexLeq(k, j))

\* list_objects_v2(MaxKeys=1): S3 lists keys in lexicographic order
FirstKey(p) == CHOOSE k \in DOMAIN p : \A j \in DOMAIN p : LexLeq(k, j)

\* faulty variant of delete_object: the call returns without removing the key
delete_object_kept(p, k) == p

\* delete_object
delete_object(p, k) == [x \in DOMAIN p \ {k} |-> p[x]]

----------------------------------------------------------------------------
(* Inputs: the keys and request texts Bucket 2 may hold at start *)

K1 == << "1" >>
K10 == << "1", "0" >>
K2 == << "2" >>
Keys == {K1, K10, K2}

W1 == Str(<< "w", "1" >>)
W2 == Str(<< "w", "2" >>)

\* create, owner "A b", label "L"
DocCreate == Object(Req(Str(Create), W1, Str(<< "A", " ", "b" >>),
                        Str(<< "L" >>), Absent, <<>>))
\* "CREATE", owner "a-b" (the storage key of DocCreate), empty label, null
\* description, color given twice
DocCreateUpper ==
    Object(Req(Str(<< "C", "R", "E", "A", "T", "E" >>), W1,
               Str(<< "a", "-", "b" >>), Str(<<>>), Null,
               << [name |-> "color", value |-> Str(<< "r" >>)],
                  [name |-> "color", value |-> Str(<< "b" >>)] >>))
\* create whose otherAttributes carry the reserved name owner
DocCreateCollide ==
    Object(Req(Str(Create), W2, Str(<< "A" >>), Absent, Absent,
               << [name |-> "owner", value |-> Str(<< "B" >>)] >>))
\* create without owner
DocCreateNoOwner == Object(Req(Str(Create), W1, Absent, Absent, Absent, <<>>))
\* create without widgetId
DocCreateNoWidgetId ==
    Object(Req(Str(Create), Absent, Str(<< "A" >>), Absent, Absent, <<>>))
DocUpdate == Object(Req(Str(Update), W1, Str(<< "A" >>), Absent, Absent, <<>>))
DocDelete == Object(Req(Str(<< "D", "e", "l", "e", "t", "e" >>), W1,
                        Str(<< "A" >>), Absent, Absent, <<>>))
DocUnknown == Object(Req(Str(<< "x" >>), W1, Str(<< "A" >>), Absent, Absent, <<>>))
DocNoType == Object(Req(Absent, W1, Str(<< "A" >>), Absent, Absent, <<>>))

Docs == {Garbage, Scalar, DocCreate, DocCreateUpper, DocCreateCollide,
         DocCreateNoOwner, DocCreateNoWidgetId, DocUpdate, DocDelete, DocUnknown, DocNoType}

Buckets == UNION {[ks -> Docs] : ks \in {S \in SUBSET Keys : Cardinality(S) <= MaxPending}}

\* locals of main() before their first assignment
Unbound == [fmt |-> "unbound", obj |-> NoObj]
NoData == [ok |-> FALSE, isdict |-> FALSE, obj |-> NoObj]

----------------------------------------------------------------------------
(* main() *)

Init ==
    /\ dest \in {"s3", "dynamo"}
    /\ max_iterations \in 0..MaxN
    /\ pending \in Buckets
    /\ blob = [x \in {} |-> Unbound]
    /\ table = <<>>
    /\ pc = "fetch"
    /\ key = <<>>
    /\ text = Unbound
    /\ data = NoData
    /\ iterations = 0
    /\ sleeps = 0
    /\ storeCalls = [k \in Keys |-> 0]
    /\ delivered = [k \in Keys |-> 0]
    /\ branch = "none"
    /\ deleted = FALSE
    /\ stoppedAt = "none"
    /\ failures = 0
    /\ bucket0 = pending
    /\ arg = <<>>
    /\ ret = <<>>

\* faulty variant of AfterIteration: the counter is compared with > instead of >=
AfterIterationLate(it) ==
    IF max_iterations # 0 /\ it > max_iterations THEN "done" ELSE "fetch"

\* lines 203-206 (and 182-186): where the loop goes once the counter is it
AfterIteration(it) ==
    IF max_iterations # 0 /\ it >= max_iterations THEN "done" ELSE "fetch"

\* lines 169-172: Bucket 2 is empty; sleep and end the iteration
FetchNone ==
    /\ pc = "fetch"
    /\ iterations < IterCap
    /\ DOMAIN pending = {}
    /\ sleeps' = sleeps + 1
    /\ iterations' = iterations + 1
    /\ pc' = AfterIteration(iterations + 1)
    /\ branch' = "idle"
    /\ UNCHANGED <<dest, max_iterations, pending, blob, table, key, text, data,
                   storeCalls, delivered, deleted, stoppedAt, failures,
                   bucket0, arg, ret>>

\* lines 169, 174-175: the source returns the first key and its text
FetchGot ==
    /\ pc = "fetch"
    /\ iterations < IterCap
    /\ DOMAIN pending # {}
    /\ key' = FirstKey(pending)
    /\ text' = pending[FirstKey(pending)]
    /\ delivered' = [delivered EXCEPT ![FirstKey(pending)] = @ + 1]
    /\ deleted' = FALSE
    /\ pc' = "parse"
    /\ UNCHANGED <<dest, max_iterations, pending, blob, table, data, iterations,
                   sleeps, storeCalls, branch, stoppedAt, failures, bucket0, arg, ret>>

\* line 169: list_objects_v2 or get_object raises; nothing in main() catches
\* it, so it leaves the loop
FetchError ==
    /\ pc = "fetch"
    /\ iterations < IterCap
    /\ failures < MaxFailures
    /\ \E call \in {"list", "get"} : call = "get" => DOMAIN pending # {}
    /\ failures' = failures + 1
    /\ pc' = "crashed"
    /\ stoppedAt' = "fetch"
    /\ UNCHANGED <<dest, max_iterations, pending, blob, table, key, text, data,
                   iterations, sleeps, storeCalls, delivered, branch, deleted,
                   bucket0, arg, ret>>

\* lines 177-179: json.loads
Parse ==
    /\ pc = "parse"
    /\ IF json_loads(text).ok
       THEN data' = json_loads(text) /\ pc' = "del_claim"
       ELSE data' = data /\ pc' = "del_bad"
    /\ UNCHANGED <<dest, max_iterations, pending, blob, table, key, text,
                   iterations, sleeps, storeCalls, delivered, branch, deleted,
                   stoppedAt, failures, bucket0, arg, ret>>

\* faulty variant of DeleteMalformed: the invalid envelope is logged but not deleted
DeleteMalformedKept ==
    /\ pc = "del_bad"
    /\ iterations' = iterations + 1
    /\ pc' = AfterIteration(iterations + 1)
    /\ branch' = "malformed"
    /\ UNCHANGED <<dest, max_iterations, pending, blob, table, key, text, data,
                   sleeps, storeCalls, delivered, deleted, stoppedAt, failures,
                   bucket0, arg, ret>>

\* lines 180-186: invalid JSON; delete, count the iteration, continue
DeleteMalformed ==
    /\ pc = "del_bad"
    /\ pending' = delete_object(pending, key)
    /\ deleted' = TRUE
    /\ iterations' = iterations + 1
    /\ pc' = AfterIteration(iterations + 1)
    /\ branch' = "malformed"
    /\ UNCHANGED <<dest, max_iterations, blob, table, key, text, data, sleeps,
                   storeCalls, delivered, stoppedAt, failures, bucket0, arg, ret>>

\* line 181: delete_object raises; this call is not inside a try
DeleteMalformedError ==
    /\ pc = "del_bad"
    /\ failures < MaxFailures
    /\ failures' = failures + 1
    /\ pc' = "crashed"
    /\ stoppedAt' = "del_bad"
    /\ UNCHANGED <<dest, max_iterations, pending, blob, table, key, text, data,
                   iterations, sleeps, storeCalls, delivered, branch, deleted,
                   bucket0, arg, ret>>

\* lines 189-190: delete first
DeleteClaim ==
    /\ pc = "del_claim"
    /\ pending' = delete_object(pending, key)
    /\ deleted' = TRUE
    /\ pc' = "process"
    /\ UNCHANGED <<dest, max_iterations, blob, table, key, text, data, iterations,
                   sleeps, storeCalls, delivered, branch, stoppedAt, failures,
                   bucket0, arg, ret>>

\* lines 191-192: delete_object raises ClientError; logged, then on to
\* process_request
DeleteClaimClientError ==
    /\ pc = "del_claim"
    /\ failures < MaxFailures
    /\ failures' = failures + 1
    /\ pc' = "process"
    /\ UNCHANGED <<dest, max_iterations, pending, blob, table, key, text, data,
                   iterations, sleeps, storeCalls, delivered, branch, deleted,
                   stoppedAt, bucket0, arg, ret>>

\* line 190: delete_object raises something that is no ClientError (a
\* botocore connection error); except ClientError does not catch it
DeleteClaimOtherError ==
    /\ pc = "del_claim"
    /\ failures < MaxFailures
    /\ failures' = failures + 1
    /\ pc' = "crashed"
    /\ stoppedAt' = "del_claim"
    /\ UNCHANGED <<dest, max_iterations, pending, blob, table, key, text, data,
                   iterations, sleeps, storeCalls, delivered, branch, deleted,
                   bucket0, arg, ret>>

\* lines 195-206 with outcome r of process_request
Processed(r) ==
    /\ blob' = r.blob
    /\ table' = r.table
    /\ storeCalls' = [storeCalls EXCEPT ![key] = @ + r.calls]
    /\ branch' = r.outcome
    /\ iterations' = iterations + 1
    /\ pc' = AfterIteration(iterations + 1)

\* lines 195-206: process_request returns, or raises an error of its own
\* (KeyError, AttributeError) that except Exception catches
Process ==
    /\ pc = "process"
    /\ \E r \in {process_request(data, dest, blob, table, TRUE)} : Processed(r)
    /\ UNCHANGED <<dest, max_iterations, pending, key, text, data, sleeps,
                   delivered, deleted, stoppedAt, failures, bucket0, arg, ret>>

\* faulty variant of ProcessStoreError: the failed store puts the request back into
\* Bucket 2 for a later retry
ProcessStoreErrorRequeue ==
    /\ pc = "process"
    /\ ReachesSink(data)
    /\ failures < MaxFailures
    /\ failures' = failures + 1
    /\ \E r \in {process_request(data, dest, blob, table, FALSE)} : Processed(r)
    /\ pending' = [x \in DOMAIN pending \cup {key} |->
                      IF x = key THEN text ELSE pending[x]]
    /\ UNCHANGED <<dest, max_iterations, key, text, data, sleeps, delivered,
                   deleted, stoppedAt, bucket0, arg, ret>>

\* lines 198-201: put_object or put_item raises; logged, no retry
ProcessStoreError ==
    /\ pc = "process"
    /\ ReachesSink(data)
    /\ failures < MaxFailures
    /\ failures' = failures + 1
    /\ \E r \in {process_request(data, dest, blob, table, FALSE)} : Processed(r)
    /\ UNCHANGED <<dest, max_iterations, pending, key, text, data, sleeps,
                   delivered, deleted, stoppedAt, bucket0, arg, ret>>

\* lines 207-208: KeyboardInterrupt is raised wherever main() happens to be
Interrupt ==
    /\ pc \in {"fetch", "parse", "del_bad", "del_claim", "process"}
    /\ pc' = "interrupted"
    /\ stoppedAt' = pc
    /\ UNCHANGED <<dest, max_iterations, pending, blob, table, key, text, data,
                   iterations, sleeps, storeCalls, delivered, branch, deleted,
                   failures, bucket0, arg, ret>>

Next ==
    \/ FetchNone
    \/ FetchGot
    \/ FetchError
    \/ Parse
    \/ DeleteMalformed
    \/ DeleteMalformedError
    \/ DeleteClaim
    \/ DeleteClaimClientError
    \/ DeleteClaimOtherError
    \/ Process
    \/ ProcessStoreError
    \/ Interrupt

Spec == Init /\ [][Next]_vars

----------------------------------------------------------------------------
(* The loop running unbounded, with no backend error and no interrupt *)

\* before main() has read its arguments
InitDrain ==
    /\ pc = "start"
    /\ dest = "s3"
    /\ max_iterations = 0
    /\ pending = [x \in {} |-> Unbound]
    /\ blob = [x \in {} |-> Unbound]
    /\ table = <<>>
    /\ key = <<>>
    /\ text = Unbound
    /\ data = NoData
    /\ iterations = 0
    /\ sleeps = 0
    /\ storeCalls = [k \in Keys |-> 0]
    /\ delivered = [k \in Keys |-> 0]
    /\ branch = "none"
    /\ deleted = FALSE
    /\ stoppedAt = "none"
    /\ failures = 0
    /\ bucket0 = pending
    /\ arg = <<>>
    /\ ret = <<>>

\* lines 132-165: main() starts with --max-iterations 0, some --dest and some
\* content of Bucket 2
Start ==
    /\ pc = "start"
    /\ dest' \in {"s3", "dynamo"}
    /\ pending' \in Buckets
    /\ bucket0' = pending'
    /\ pc' = "fetch"
    /\ UNCHANGED <<max_iterations, blob, table, key, text, data, iterations,
                   sleeps, storeCalls, delivered, branch, deleted, stoppedAt,
                   failures, arg, ret>>

NextDrain ==
    \/ Start
    \/ FetchNone
    \/ FetchGot
    \/ Parse
    \/ DeleteMalformed
    \/ DeleteClaim
    \/ Process

\* main() is sequential code: whenever it can take its next step it takes it
DrainSpec == InitDrain /\ [][NextDrain]_vars /\ WF_vars(NextDrain)

----------------------------------------------------------------------------
(* The transform helpers called on their own *)

\* sequences over S of length at most n
SeqsUpTo(S, n) == UNION {[1..m -> S] : m \in 0..n}

OtherEntries ==
    {[name |-> nm, value |-> Str(<< c >>)] :
        nm \in {"color", "widget_id", "owner", "label", "description"},
        c \in {"r", "b"}}

\* the requests given to flatten_widget
Requests ==
    {Req(Str(Create), wid, own, lab, des, oas) :
        wid \in {W1, Absent},
        own \in {Str(<< "A" >>), Absent},
        lab \in {Absent, Null, Str(<<>>), Str(<< "L" >>)},
        des \in {Absent, Null, Str(<<>>), Str(<< "D" >>)},
        oas \in SeqsUpTo(OtherEntries, MaxOthers)}

\* the owners given to normalize_owner
Owners == SeqsUpTo({" ", "-", "A", "b", "U+0130", "U+2102"}, MaxOwnerLen)

InitTransform ==
    /\ \/ pc = "flatten" /\ arg \in Requests
       \/ pc = "normalize" /\ arg \in Owners
    /\ ret = <<>>
    /\ dest = "s3"
    /\ max_iterations = 0
    /\ pending = [x \in {} |-> Unbound]
    /\ blob = [x \in {} |-> Unbound]
    /\ table = <<>>
    /\ key = <<>>
    /\ text = Unbound
    /\ data = NoData
    /\ iterations = 0
    /\ sleeps = 0
    /\ storeCalls = [k \in Keys |-> 0]
    /\ delivered = [k \in Keys |-> 0]
    /\ branch = "none"
    /\ deleted = FALSE
    /\ stoppedAt = "none"
    /\ failures = 0
    /\ bucket0 = pending

\* flatten_widget(arg)
CallFlatten ==
    /\ pc = "flatten"
    /\ ret' = flatten_widget(arg)
    /\ pc' = "flattened"
    /\ UNCHANGED <<dest, max_iterations, pending, blob, table, key, text, data,
                   iterations, sleeps, storeCalls, delivered, branch, deleted,
                   stoppedAt, failures, bucket0, arg>>

\* normalize_owner(arg)
CallNormalize ==
    /\ pc = "normalize"
    /\ ret' = normalize_owner(arg)
    /\ pc' = "normalized"
    /\ UNCHANGED <<dest, max_iterations, pending, blob, table, key, text, data,
                   iterations, sleeps, storeCalls, delivered, branch, deleted,
                   stoppedAt, failures, bucket0, arg>>

NextTransform ==
    \/ CallFlatten
    \/ CallNormalize

TransformSpec == InitTransform /\ [][NextTransform]_vars

----------------------------------------------------------------------------
(* Properties *)

\* the loop is between two iterations, or has left by the counter
BetweenIterations == pc \in {"fetch", "done"}

\* C1: every envelope that was ever in Bucket 2 causes at most one sink
\* store call (put_object or put_item), whatever calls fail
C1_AtMostOnce == \A k \in Keys : storeCalls[k] <= 1

\* C2: at every sink store call the key of the envelope being stored is
\* already absent from Bucket 2
C2_ClaimThenAct == [][storeCalls' # storeCalls => key \notin DOMAIN pending]_vars

\* C3: no failure of a backend call or of parsing ends the loop; it ends
\* only by the iteration counter or by an interrupt
C3_NoFailureEndsLoop == pc # "crashed"

\* C8: when the loop has ended by an interrupt, it was interrupted between
\* two iterations, with no envelope fetched or deleted and not yet handled
C8_InterruptAtSafePoint == pc = "interrupted" => stoppedAt = "fetch"

\* a sink store call fails in this step
StoreFails == pc = "process" /\ failures' = failures + 1

RequestLost ==
    /\ storeCalls' = [storeCalls EXCEPT ![key] = @ + 1]
    /\ pending' = pending
    /\ (deleted => key \notin DOMAIN pending')
    /\ blob' = blob
    /\ table' = table
    /\ branch' = "store_failed"
    /\ iterations' = iterations + 1
    /\ pc' \in {"fetch", "done"}

\* C4: when the sink store of a create request fails, exactly one store call
\* was made for it, Bucket 2 is left as it is (the key is not put back, a
\* deleted key stays deleted), neither sink is written, and the loop goes on
\* to the next iteration
C4_StoreFailureLosesRequest == [][StoreFails => RequestLost]_vars

C4_Witness ==
    /\ pc = "fetch"
    /\ branch = "store_failed"
    /\ deleted
    /\ key \in DOMAIN bucket0 /\ key \notin DOMAIN pending
    /\ storeCalls[key] = 1
    /\ DOMAIN blob = {} /\ table = <<>>

\* the text is not valid JSON
Malformed(txt) == txt.fmt = "garbage"

\* C5: an envelope whose text is not valid JSON is returned by the source at
\* most once, causes no sink store call, and is gone from Bucket 2 when the
\* iteration that fetched it has ended
C5_MalformedDropped ==
    \A k \in DOMAIN bucket0 :
        Malformed(bucket0[k]) =>
            /\ storeCalls[k] = 0
            /\ delivered[k] <= 1
            /\ (BetweenIterations /\ delivered[k] = 1 => k \notin DOMAIN pending)

C5_Witness ==
    /\ pc = "fetch"
    /\ branch = "malformed"
    /\ Malformed(text)
    /\ delivered[key] = 1
    /\ key \notin DOMAIN pending
    /\ DOMAIN pending # {}
    /\ iterations = 1

\* the text parses and its type, lowercased, is not "create" (a JSON value
\* that is no object has no type)
NonCreate(txt) ==
    /\ txt.fmt \in {"scalar", "object"}
    /\ \/ txt.fmt = "scalar"
       \/ txt.obj.type \in {Absent, Null}
       \/ lower(txt.obj.type.v) # Create

HandlingNonCreate == pc \in {"parse", "del_claim", "process"} /\ NonCreate(text)

SinksUntouched ==
    /\ blob' = blob
    /\ table' = table
    /\ storeCalls' = storeCalls
    /\ (pc = "process" /\ pc' \in {"fetch", "done"} /\ deleted
           => key \notin DOMAIN pending')

\* C6: while a parsed request whose type is not create is being handled,
\* neither sink is written and no sink call is made, and when its iteration
\* ends its key is gone from Bucket 2 unless its delete call failed
C6_NonCreateNoSink == [][HandlingNonCreate => SinksUntouched]_vars

C6_Witness ==
    /\ pc = "fetch"
    /\ text = DocDelete
    /\ branch = "skipped"
    /\ deleted
    /\ key \notin DOMAIN pending
    /\ DOMAIN blob = {} /\ table = <<>>
    /\ storeCalls[key] = 0

\* an envelope has been fetched and its iteration has not ended
InFlight ==
    \/ pc \in {"parse", "del_bad", "del_claim", "process"}
    \/ pc \in {"crashed", "interrupted"} /\ stoppedAt # "fetch"

Fetched == delivered[K1] + delivered[K10] + delivered[K2]

\* C7: the counter is the number of iterations ended, whatever their branch
\* (each one slept or handled one envelope); with max_iterations = N > 0 the
\* loop leaves by the counter exactly when N iterations have ended and
\* starts no further one, after exactly N sleeps when Bucket 2 was empty
\* from the start; with N = 0 it never leaves by the counter
C7_ExactlyNIterations ==
    /\ iterations + (IF InFlight THEN 1 ELSE 0) = sleeps + Fetched
    /\ (pc = "done" => max_iterations > 0 /\ iterations = max_iterations)
    /\ (max_iterations > 0 /\ pc # "done" => iterations < max_iterations)
    /\ (pc = "done" /\ DOMAIN bucket0 = {} => sleeps = max_iterations)

C7_Witness ==
    /\ pc = "done"
    /\ max_iterations = MaxN
    /\ DOMAIN bucket0 = {}
    /\ sleeps = MaxN

----------------------------------------------------------------------------
(* End-to-end properties *)

\* Bucket 2 held one create request with string widgetId and owner, no
\* backend call failed, and one iteration has ended
OneValidCreate ==
    /\ Cardinality(DOMAIN bucket0) = 1
    /\ \A k \in DOMAIN bucket0 :
          /\ bucket0[k].fmt = "object"
          /\ bucket0[k].obj.type.t = "str"
          /\ lower(bucket0[k].obj.type.v) = Create
          /\ bucket0[k].obj.widgetId.t = "str"
          /\ bucket0[k].obj.owner.t = "str"
    /\ failures = 0
    /\ iterations = 1
    /\ BetweenIterations

TheRequest == bucket0[CHOOSE k \in DOMAIN bucket0 : TRUE].obj

\* lowercased, each space replaced by a dash
Normalized(o) ==
    [i \in 1..Len(o) |-> IF o[i] = " " THEN "-" ELSE LowerChar(o[i])]

StorageKey(owner, widget_id) ==
    WidgetsPrefix \o Normalized(owner) \o << "/" >> \o widget_id

\* the blob store holds exactly one object, under k, whose content is the
\* flattened record of the request; Bucket 2 is empty
OneBlobAt(k) ==
    /\ DOMAIN pending = {}
    /\ DOMAIN blob = {k}
    /\ blob[k].fmt = "object"
    /\ blob[k].obj = flatten_widget(TheRequest).out
    /\ table = <<>>

\* C9 as stated: the object is at widgets/{normalized owner}/{widgetId} of
\* the request
C9_BlobAtRequestKey ==
    OneValidCreate /\ dest = "s3" =>
        OneBlobAt(StorageKey(TheRequest.owner.v, TheRequest.widgetId.v))

\* C9 amended: the object is at widgets/{normalized owner}/{widget_id} of the
\* flattened record, which are the request's owner and widgetId unless an
\* otherAttributes entry is named owner or widget_id
C9_BlobAtRecordKey ==
    OneValidCreate /\ dest = "s3" =>
        LET rec == flatten_widget(TheRequest).out
        IN  /\ OneBlobAt(StorageKey(Get(rec, "owner").v, Get(rec, "widget_id").v))
            /\ (\A i \in 1..Len(TheRequest.otherAttributes) :
                    TheRequest.otherAttributes[i].name \notin {"owner", "widget_id"})
                => OneBlobAt(StorageKey(TheRequest.owner.v, TheRequest.widgetId.v))

C9_Witness ==
    /\ OneValidCreate
    /\ dest = "s3"
    /\ TheRequest = DocCreate.obj
    /\ branch = "stored"
    /\ DOMAIN blob = {WidgetsPrefix \o << "a", "-", "b", "/", "w", "1" >>}

\* C10: the table has received exactly one item, which has one string-typed
\* attribute per entry of the flattened record and no other; Bucket 2 is
\* empty
C10_TableItem ==
    OneValidCreate /\ dest = "dynamo" =>
        LET rec == flatten_widget(TheRequest).out
        IN  /\ DOMAIN pending = {}
            /\ DOMAIN blob = {}
            /\ Len(table) = 1
            /\ Len(table[1]) = Len(rec)
            /\ \A i \in 1..Len(rec) :
                  /\ rec[i][2].t = "str"
                  /\ \E j \in 1..Len(table[1]) :
                        table[1][j] = <<rec[i][1], [S |-> rec[i][2]]>>
            /\ \A i, j \in 1..Len(table[1]) :
                  table[1][i][1] = table[1][j][1] => i = j

C10_Witness ==
    /\ OneValidCreate
    /\ dest = "dynamo"
    /\ TheRequest = DocCreateUpper.obj
    /\ branch = "stored"
    /\ Len(table) = 1
    /\ Len(table[1]) = 3

----------------------------------------------------------------------------
(* Failures of the request source *)

\* list_objects_v2 or get_object raises in this step
FetchFails == pc = "fetch" /\ failures' = failures + 1

IterationAborted ==
    /\ pending' = pending
    /\ blob' = blob
    /\ table' = table
    /\ storeCalls' = storeCalls
    /\ pc' \in {"fetch", "done"}

\* C11: a fetch error ends only the current iteration: nothing is deleted,
\* no sink is called, and the loop is at its next iteration
C11_FetchErrorAbortsIteration == [][FetchFails => IterationAborted]_vars

\* delete_object raises in this step, for an invalid or for a parsed envelope
DeleteFails == pc \in {"del_bad", "del_claim"} /\ failures' = failures + 1

\* C12: a delete error does not stop the loop, neither for an invalid
\* envelope nor for a parsed one: the iteration goes on to its end
C12_DeleteErrorDoesNotBlock == [][DeleteFails => pc' # "crashed"]_vars

----------------------------------------------------------------------------
(* Missing fields *)

\* the text is a create request without widgetId or without owner
LacksField(txt) ==
    /\ txt.fmt = "object"
    /\ txt.obj.type.t = "str"
    /\ lower(txt.obj.type.v) = Create
    /\ (txt.obj.widgetId = Absent \/ txt.obj.owner = Absent)

HandlingLacksField == pc \in {"parse", "del_claim", "process"} /\ LacksField(text)

NotStoredNotRequeued ==
    /\ blob' = blob
    /\ table' = table
    /\ storeCalls' = storeCalls
    /\ DOMAIN pending' \subseteq DOMAIN pending
    /\ (pc = "process" /\ pc' # "interrupted" =>
           /\ branch' = "missing_field"
           /\ pc' \in {"fetch", "done"}
           /\ iterations' = iterations + 1
           /\ (deleted => key \notin DOMAIN pending'))

\* C13: while a create request without widgetId or owner is being handled,
\* no sink call is made and neither sink is written, its key is never put
\* back into Bucket 2 (once deleted it stays deleted), and process_request
\* ends with the missing-field error caught: the counter is incremented and
\* the loop goes on
C13_MissingFieldLost == [][HandlingLacksField => NotStoredNotRequeued]_vars

C13_Witness ==
    /\ pc = "fetch"
    /\ branch = "missing_field"
    /\ text = DocCreateNoWidgetId
    /\ deleted
    /\ key \in DOMAIN bucket0 /\ key \notin DOMAIN pending
    /\ storeCalls[key] = 0
    /\ DOMAIN blob = {} /\ table = <<>>
    /\ iterations = 1

----------------------------------------------------------------------------
(* Order of the request source *)

\* a comes strictly before b in lexicographic order: at the first position
\* where they differ a has ended or has the smaller character
Before(a, b) ==
    \E i \in 1..Len(b) :
        /\ \A j \in 1..(i - 1) : j <= Len(a) /\ a[j] = b[j]
        /\ \/ i = Len(a) + 1
           \/ i <= Len(a) /\ Ord(a[i]) < Ord(b[i])

SourceInOrder ==
    /\ (pc = "fetch" /\ pc' = "parse" =>
           /\ key' \in DOMAIN pending
           /\ text' = pending[key']
           /\ \A j \in DOMAIN pending \ {key'} : Before(key', j))
    /\ (pc = "fetch" /\ sleeps' # sleeps => DOMAIN pending = {})
    /\ (pc = "fetch" /\ DOMAIN pending = {} => pc' # "parse")
    /\ (pending' # pending =>
           /\ DOMAIN pending' = DOMAIN pending \ {key}
           /\ \A j \in DOMAIN bucket0 \ DOMAIN pending : Before(j, key))

\* C14: the source returns the lexicographically smallest key of Bucket 2
\* with its text, and nothing exactly when Bucket 2 is empty; every key
\* deleted is greater than all keys deleted before it
C14_SmallestKeyFirst == [][SourceInOrder]_vars

C14_Witness ==
    /\ DOMAIN bucket0 = {K10, K2}
    /\ DOMAIN pending = {}
    /\ key = K2
    /\ delivered[K10] = 1 /\ delivered[K2] = 1
    /\ pc = "fetch"

----------------------------------------------------------------------------
(* Properties of the transform helpers, under TransformSpec *)

\* the record has exactly one entry named k, and its value is v
Maps(rec, k, v) ==
    /\ \E i \in 1..Len(rec) : rec[i] = <<k, v>>
    /\ \A i, j \in 1..Len(rec) : rec[i][1] = k /\ rec[j][1] = k => i = j

Present(rec, k) == \E i \in 1..Len(rec) : rec[i][1] = k

\* the request's value for an optional field is non-null and non-empty
Given(v) == v.t = "str" /\ Len(v.v) > 0

\* C15: for a request with widgetId and owner and no otherAttributes,
\* flatten_widget returns a record in which label (and likewise description)
\* is present iff the request's value is non-null and non-empty, and then
\* maps to that value; widget_id and owner map to the request's widgetId and
\* owner
C15_OptionalFields ==
    /\ pc = "flattened"
    /\ arg.otherAttributes = <<>>
    /\ arg.widgetId # Absent
    /\ arg.owner # Absent
    => /\ ret.ok
       /\ (Present(ret.out, "label") <=> Given(arg.label))
       /\ (Given(arg.label) => Maps(ret.out, "label", arg.label))
       /\ (Present(ret.out, "description") <=> Given(arg.description))
       /\ (Given(arg.description) => Maps(ret.out, "description", arg.description))
       /\ Maps(ret.out, "widget_id", arg.widgetId)
       /\ Maps(ret.out, "owner", arg.owner)

C15_Witness ==
    /\ pc = "flattened"
    /\ arg.otherAttributes = <<>>
    /\ arg.label = Str(<<>>)
    /\ arg.description = Str(<< "D" >>)
    /\ ret.ok
    /\ Len(ret.out) = 3
    /\ ~Present(ret.out, "label")
    /\ Maps(ret.out, "description", Str(<< "D" >>))

\* entry i is the last entry of oas with its name
LastOfName(oas, i) == \A j \in (i + 1)..Len(oas) : oas[j].name # oas[i].name

\* C16: for every name occurring in otherAttributes the flattened record
\* maps the name to the value of the last entry carrying it, also when the
\* name is widget_id, owner, label or description
C16_LastWriteWins ==
    pc = "flattened" /\ ret.ok =>
        \A i \in 1..Len(arg.otherAttributes) :
            LastOfName(arg.otherAttributes, i) =>
                Maps(ret.out, arg.otherAttributes[i].name,
                     arg.otherAttributes[i].value)

C16_Witness ==
    /\ pc = "flattened"
    /\ arg.owner = Str(<< "A" >>)
    /\ arg.label = Str(<< "L" >>)
    /\ arg.otherAttributes = << [name |-> "owner", value |-> Str(<< "r" >>)],
                                [name |-> "owner", value |-> Str(<< "b" >>)] >>
    /\ ret.ok
    /\ Maps(ret.out, "owner", Str(<< "b" >>))

\* the uppercase letters among the characters of the model
IsUpper(c) ==
    c \in {"A", "B", "C", "D", "E", "L", "N", "R", "T", "U+0130", "U+2102"}

\* the letters among them that have a lowercase form of their own
HasLowerForm(c) == c \in {"A", "B", "C", "D", "E", "L", "N", "R", "T", "U+0130"}

\* what one character of the owner becomes when its lowercase form is one
\* character
NormalChar(c) == IF c = " " THEN "-" ELSE LowerChar(c)

\* C17 as stated: the normalized owner has no space and no uppercase letter,
\* and is the owner with each space replaced by a dash and each uppercase
\* letter by its lowercase form, character by character, the length kept
C17_LowercaseSameLength ==
    pc = "normalized" =>
        /\ \A i \in 1..Len(ret) : ret[i] # " " /\ ~IsUpper(ret[i])
        /\ Len(ret) = Len(arg)
        /\ \A i \in 1..Len(arg) : ret[i] = NormalChar(arg[i])

\* the number of characters of s whose lowercase form has two characters
RECURSIVE Expanding(_)
Expanding(s) ==
    IF s = <<>> THEN 0
    ELSE (IF Head(s) = "U+0130" THEN 1 ELSE 0) + Expanding(Tail(s))

\* C17 amended: the normalized owner has no space and no letter that has a
\* lowercase form of its own; it is one character longer than the owner for
\* each character whose lowercase form has two characters (U+0130), and when
\* the owner has no such character it is the owner with each space replaced
\* by a dash and each letter that has a lowercase form by that form,
\* character by character
C17_NormalizedOwner ==
    pc = "normalized" =>
        /\ \A i \in 1..Len(ret) : ret[i] # " " /\ ~HasLowerForm(ret[i])
        /\ Len(ret) = Len(arg) + Expanding(arg)
        /\ (Expanding(arg) = 0 =>
               \A i \in 1..Len(arg) : ret[i] = NormalChar(arg[i]))

C17_Witness ==
    /\ pc = "normalized"
    /\ arg = << "A", " ", "U+0130" >>
    /\ ret = << "a", "-", "i", "U+0307" >>
    /\ Len(ret) = Len(arg) + 1

----------------------------------------------------------------------------
(* Sink selection, under Spec *)

\* the sink that was not configured has never been written
OtherSinkEmpty ==
    /\ (dest = "s3" => table = <<>>)
    /\ (dest = "dynamo" => DOMAIN blob = {})

\* a sink call succeeds in this step
Stores == pc = "process" /\ storeCalls' # storeCalls /\ failures' = failures

\* one call, to the configured sink
OneSinkCall ==
    /\ storeCalls' = [storeCalls EXCEPT ![key] = @ + 1]
    /\ (dest = "s3" =>
           /\ table' = table
           /\ DOMAIN blob' # {}
           /\ Cardinality(DOMAIN blob') <= Cardinality(DOMAIN blob) + 1)
    /\ (dest = "dynamo" =>
           /\ blob' = blob
           /\ Len(table') = Len(table) + 1)

\* C18: in a run configured for the blob sink the table is never written and
\* in a run configured for the table sink the blob store is never written,
\* whatever the requests hold; every request that is stored is handed to
\* exactly one call of the configured sink
C18_SinkByConfiguration == []OtherSinkEmpty /\ [][Stores => OneSinkCall]_vars

C18_Witness ==
    /\ dest = "dynamo"
    /\ pc = "fetch"
    /\ Len(table) = 2
    /\ table[1] # table[2]
    /\ DOMAIN blob = {}
    /\ DOMAIN pending = {}

----------------------------------------------------------------------------
(* Overwriting in the blob store, under Spec *)

\* the text is a create request with string widgetId and owner
ValidCreate(txt) ==
    /\ txt.fmt = "object"
    /\ txt.obj.type.t = "str"
    /\ lower(txt.obj.type.v) = Create
    /\ txt.obj.widgetId.t = "str"
    /\ txt.obj.owner.t = "str"

\* the storage key of a valid create request
KeyOf(txt) ==
    LET rec == flatten_widget(txt.obj).out
    IN  StorageKey(Get(rec, "owner").v, Get(rec, "widget_id").v)

\* Bucket 2 held the valid create requests a and then b, with the same
\* storage key; both have been handled and no backend call failed
StoredBoth(a, b) ==
    /\ DOMAIN bucket0 = {a, b}
    /\ Before(a, b)
    /\ ValidCreate(bucket0[a])
    /\ ValidCreate(bucket0[b])
    /\ KeyOf(bucket0[a]) = KeyOf(bucket0[b])
    /\ dest = "s3"
    /\ failures = 0
    /\ iterations = 2
    /\ BetweenIterations

\* C19: when two create requests have the same storage key (same widget id,
\* owners equal after normalization), the blob store holds one object under
\* that key after both were handled, and its content is the flattened record
\* of the later request
C19_LaterOverwrites ==
    \A a, b \in Keys :
        StoredBoth(a, b) =>
            /\ DOMAIN blob = {KeyOf(bucket0[b])}
            /\ blob[KeyOf(bucket0[b])].fmt = "object"
            /\ blob[KeyOf(bucket0[b])].obj = flatten_widget(bucket0[b].obj).out

C19_Witness ==
    /\ StoredBoth(K10, K2)
    /\ bucket0[K10] = DocCreate
    /\ bucket0[K2] = DocCreateUpper
    /\ DOMAIN blob = {WidgetsPrefix \o << "a", "-", "b", "/", "w", "1" >>}
    /\ Maps(blob[WidgetsPrefix \o << "a", "-", "b", "/", "w", "1" >>].obj,
            "owner", Str(<< "a", "-", "b" >>))

----------------------------------------------------------------------------
(* Draining, under DrainSpec *)

\* Bucket 2 is empty and every envelope it held was returned by the source
Drained ==
    /\ pc # "start"
    /\ DOMAIN pending = {}
    /\ \A k \in DOMAIN bucket0 : delivered[k] = 1

\* C20: with no arrivals, no backend error and no iteration limit, Bucket 2
\* eventually is empty and stays empty, every envelope having been reached,
\* whatever invalid, non-create or incomplete requests stood before it
C20_EventuallyDrained == <>[]Drained

C20_Witness ==
    /\ DOMAIN bucket0 = {K1, K10}
    /\ bucket0[K1] = Garbage
    /\ bucket0[K10] = DocCreateNoOwner
    /\ Drained
    /\ branch = "idle"
    /\ iterations = 3

====
